---- MODULE Spec2Model ----
(***************************************************************************)
(* Station resolution engine of mcp_fiumi_romagna (src/src/streams.py):    *)
(* text normalisation, token matching with scored suggestions, the         *)
(* retrieval fallback and the half-hour query timestamp.                   *)
(*                                                                         *)
(* A Python str is modelled as a sequence of characters; a character is a  *)
(* one-element label ("a", " ", "-") or the name of a non-ASCII code point *)
(* ("E_grave" is U+00C8, "grave" is the combining mark U+0300).  The value *)
(* None is a one-element sequence holding a marker that is no character.   *)
(***************************************************************************)
EXTENDS Integers, Sequences, FiniteSets, TLC

VARIABLES
    pc,            \* position of the call in progress
    value,         \* normalize_text: its argument
    normalized,    \* normalize_text(value)
    renormalized,  \* normalize_text(normalize_text(value))
    entries,       \* the station records, in upstream order
    query,         \* the caller's free text
    matches,       \* select_stations_by_query: first component of the result
    suggestions,   \* select_stations_by_query: second component of the result
    max_results,   \* select_stations_by_query_with_retrieval: its result cap
    api_key,       \* os.getenv("OPENAI_API_KEY")
    vector_store,  \* os.getenv("OPENAI_VECTOR_STORE_ID")
    service,       \* what the remote service does with a request of this call
    requests,      \* requests handed to urlopen by _openai_create_response
    local,         \* the pair select_stations_by_query returned
    retrieved,     \* how _retrieve_station_names ended, and its names
    result,        \* how select_stations_by_query_with_retrieval ended, and its pair
    zone,          \* the host's time zone (TZ)
    now,           \* datetime.now(): the host's wall clock
    rounded,       \* get_timestamp_ms: `rounded` after now.replace(...)
    dst,           \* get_timestamp_ms: what is_dst(rounded) returned
    timestamp      \* get_timestamp_ms: the value returned

vars == <<pc, value, normalized, renormalized, entries, query, matches,
          suggestions, max_results, api_key, vector_store, service, requests,
          local, retrieved, result, zone, now, rounded, dst, timestamp>>

timeVars == <<zone, now, rounded, dst, timestamp>>

resolveVars == <<max_results, api_key, vector_store, service, requests, local,
                 retrieved, result>>

normVars == <<value, normalized, renormalized>>
matchVars == <<entries, query, matches, suggestions>>

None == <<"<None>">>

\* ------------------------------------------------------------------ bounds
MaxTextLen == 4
MaxQueryLen == 3
MaxShortEntries == 2
MaxEntries == 6
MaxItems == 2

\* ------------------------------------------------------- character classes
\* The class [a-z0-9] of the regular expression in normalize_text.
LowerAlnum ==
    {"a","b","c","d","e","f","g","h","i","j","k","l","m","n","o","p","q","r",
     "s","t","u","v","w","x","y","z","0","1","2","3","4","5","6","7","8","9"}

\* unicodedata.normalize("NFD", ch): canonical decomposition of one code point.
NFD(ch) ==
    CASE ch = "E_grave" -> <<"E", "grave">>
      [] ch = "e_grave" -> <<"e", "grave">>
      [] ch = "o_grave" -> <<"o", "grave">>
      [] OTHER -> <<ch>>

\* unicodedata.category(ch) == "Mn": the combining marks.
IsMn(ch) == ch = "grave"

\* str.lower() on one character.
Lower(ch) ==
    CASE ch = "A" -> "a"
      [] ch = "E" -> "e"
      [] ch = "F" -> "f"
      [] ch = "I" -> "i"
      [] ch = "O" -> "o"
      [] ch = "R" -> "r"
      [] ch = "S" -> "s"
      [] ch = "E_grave" -> "e_grave"
      [] OTHER -> ch

\* Whitespace: what \s matches and what str.strip() removes.
IsSpace(ch) == ch \in {" ", "TAB"}

\* ------------------------------------------------------- sequence helpers
RECURSIVE Concat(_)
Concat(ss) == IF ss = <<>> THEN <<>> ELSE Head(ss) \o Concat(Tail(ss))

RECURSIVE LStrip(_)
LStrip(s) == IF s # <<>> /\ IsSpace(Head(s)) THEN LStrip(Tail(s)) ELSE s

RECURSIVE RStrip(_)
RStrip(s) ==
    IF s # <<>> /\ IsSpace(s[Len(s)]) THEN RStrip(SubSeq(s, 1, Len(s) - 1)) ELSE s

\* str.strip()
Strip(s) == RStrip(LStrip(s))

\* re.sub(r"[^a-z0-9]+", " ", text): every maximal run of characters outside
\* [a-z0-9] becomes one space.
RECURSIVE SkipNonAlnum(_)
SkipNonAlnum(s) ==
    IF s # <<>> /\ Head(s) \notin LowerAlnum THEN SkipNonAlnum(Tail(s)) ELSE s

\* The slip: the pattern without its +, each character replaced on its own.
RECURSIVE SubEachNonAlnum(_)
SubEachNonAlnum(s) ==
    IF s = <<>> THEN <<>>
    ELSE IF Head(s) \in LowerAlnum THEN <<Head(s)>> \o SubEachNonAlnum(Tail(s))
    ELSE <<" ">> \o SubEachNonAlnum(Tail(s))

RECURSIVE SubNonAlnum(_)
SubNonAlnum(s) ==
    IF s = <<>> THEN <<>>
    ELSE IF Head(s) \in LowerAlnum THEN <<Head(s)>> \o SubNonAlnum(Tail(s))
    ELSE <<" ">> \o SubNonAlnum(SkipNonAlnum(s))

\* ------------------------------------------------------------ normalize_text
normalize_text(v) ==
    IF v = None THEN <<>>
    ELSE LET nfd     == Concat([i \in 1..Len(v) |-> NFD(v[i])])
             nomarks == SelectSeq(nfd, LAMBDA ch : ~IsMn(ch))
             lowered == [i \in 1..Len(nomarks) |-> Lower(nomarks[i])]
         IN  Strip(SubNonAlnum(lowered))

\* ------------------------------------------------------- strip_generic_words
\* The alternation (fiume|torrente|rio|canale|fosso), in lower case.
GenericWords ==
    { <<"f","i","u","m","e">>, <<"t","o","r","r","e","n","t","e">>,
      <<"r","i","o">>, <<"c","a","n","a","l","e">>, <<"f","o","s","s","o">> }

\* \w of a str pattern: letters (accented ones too), digits and underscore; a
\* combining mark is not a word character.
IsWordChar(ch) ==
    ch \in LowerAlnum \cup {"A","E","F","I","O","R","S","_",
                            "E_grave","e_grave","o_grave"}

\* \b before position i of s (i in 1..Len(s)+1): exactly one of the characters
\* on its two sides is a word character; outside the string counts as none.
WordBoundary(s, i) ==
    LET before == i > 1 /\ IsWordChar(s[i - 1])
        after  == i <= Len(s) /\ IsWordChar(s[i])
    IN  before # after

\* The generic word w matches at position i of s under re.IGNORECASE, with a
\* word boundary on both sides.
GenericAt(s, i, w) ==
    /\ i + Len(w) - 1 <= Len(s)
    /\ \A k \in 1..Len(w) : Lower(s[i + k - 1]) = w[k]
    /\ WordBoundary(s, i)
    /\ WordBoundary(s, i + Len(w))

\* re.sub(r"\b(fiume|...)\b", " ", s): left to right, each match becomes a space
\* and the scan resumes after it.
RECURSIVE SubGeneric(_, _)
SubGeneric(s, i) ==
    IF i > Len(s) THEN <<>>
    ELSE IF \E w \in GenericWords : GenericAt(s, i, w)
         THEN LET w == CHOOSE x \in GenericWords : GenericAt(s, i, x)
              IN  <<" ">> \o SubGeneric(s, i + Len(w))
         ELSE <<s[i]>> \o SubGeneric(s, i + 1)

\* re.sub(r"\s+", " ", text)
RECURSIVE SkipSpace(_)
SkipSpace(s) == IF s # <<>> /\ IsSpace(Head(s)) THEN SkipSpace(Tail(s)) ELSE s

RECURSIVE SubSpaces(_)
SubSpaces(s) ==
    IF s = <<>> THEN <<>>
    ELSE IF IsSpace(Head(s)) THEN <<" ">> \o SubSpaces(SkipSpace(s))
    ELSE <<Head(s)>> \o SubSpaces(Tail(s))

strip_generic_words(v) ==
    IF v = None THEN <<>> ELSE Strip(SubSpaces(SubGeneric(v, 1)))

\* ------------------------------------------------- select_stations_by_query
\* cleaned.split(" ") with the empty pieces dropped.
RECURSIVE Split(_, _)
Split(s, cur) ==
    IF s = <<>> THEN (IF cur = <<>> THEN <<>> ELSE <<cur>>)
    ELSE IF Head(s) = " "
         THEN (IF cur = <<>> THEN <<>> ELSE <<cur>>) \o Split(Tail(s), <<>>)
         ELSE Split(Tail(s), Append(cur, Head(s)))

\* cleaned = normalize_text(strip_generic_words(query))
Cleaned(q) == normalize_text(strip_generic_words(q))

Tokens(q) == Split(Cleaned(q), <<>>)

\* Python's `token in name` on strings.
IsSubstring(t, n) ==
    \E i \in 0..(Len(n) - Len(t)) : SubSeq(n, i + 1, i + Len(t)) = t

\* normalize_text(entry.get("nomestaz", ""))
EntryName(entry) == normalize_text(entry.nomestaz)

\* all(token in name for token in tokens), with `any` as the slip.
AnyTokenIn(tokens, entry) ==
    \E k \in 1..Len(tokens) : IsSubstring(tokens[k], EntryName(entry))

AllTokensIn(tokens, entry) ==
    \A k \in 1..Len(tokens) : IsSubstring(tokens[k], EntryName(entry))

\* sum(1 for token in tokens if token in name)
Score(tokens, entry) ==
    Cardinality({k \in 1..Len(tokens) : IsSubstring(tokens[k], EntryName(entry))})

\* The slip: an unstable order, equal scores placed in front.
RECURSIVE InsertDescUnstable(_, _)
InsertDescUnstable(sorted, item) ==
    IF sorted = <<>> THEN <<item>>
    ELSE IF Head(sorted)[1] > item[1]
         THEN <<Head(sorted)>> \o InsertDescUnstable(Tail(sorted), item)
         ELSE <<item>> \o sorted

\* scored.sort(key=lambda item: item[0], reverse=True): list.sort is stable, and
\* stays so with reverse=True, so an item goes behind every item already placed
\* whose score is at least its own.
RECURSIVE InsertDesc(_, _)
InsertDesc(sorted, item) ==
    IF sorted = <<>> THEN <<item>>
    ELSE IF Head(sorted)[1] >= item[1]
         THEN <<Head(sorted)>> \o InsertDesc(Tail(sorted), item)
         ELSE <<item>> \o sorted

RECURSIVE SortDescWith(_, _)
SortDescWith(scored, acc) ==
    IF scored = <<>> THEN acc
    ELSE SortDescWith(Tail(scored), InsertDesc(acc, Head(scored)))

SortDesc(scored) == SortDescWith(scored, <<>>)

\* scored[:5]
SuggestionLimit == 5

Take(s, n) == SubSeq(s, 1, IF Len(s) < n THEN Len(s) ELSE n)

\* The slip: the early return on exact matches is lost and the scored entries
\* are returned beside them.
select_stations_by_query_both(es, q) ==
    LET tokens  == Tokens(q)
        matched == SelectSeq(es, LAMBDA e : AllTokensIn(tokens, e))
        pairs   == [i \in 1..Len(es) |-> <<Score(tokens, es[i]), es[i]>>]
        scored  == SelectSeq(pairs, LAMBDA p : p[1] > 0)
        top     == Take(SortDesc(scored), SuggestionLimit)
    IN  IF Cleaned(q) = <<>> THEN [matches |-> <<>>, suggestions |-> <<>>]
        ELSE [matches |-> matched, suggestions |-> [i \in 1..Len(top) |-> top[i][2]]]

select_stations_by_query(es, q) ==
    LET tokens  == Tokens(q)
        matched == SelectSeq(es, LAMBDA e : AllTokensIn(tokens, e))
        pairs   == [i \in 1..Len(es) |-> <<Score(tokens, es[i]), es[i]>>]
        scored  == SelectSeq(pairs, LAMBDA p : p[1] > 0)
        top     == Take(SortDesc(scored), SuggestionLimit)
    IN  IF Cleaned(q) = <<>> THEN [matches |-> <<>>, suggestions |-> <<>>]
        ELSE IF matched # <<>> THEN [matches |-> matched, suggestions |-> <<>>]
        ELSE [matches |-> <<>>, suggestions |-> [i \in 1..Len(top) |-> top[i][2]]]

\* ------------------------------------------------------ retrieval fallback
\* An environment variable is unset (os.getenv gives None), empty or set.
EnvValues == {"unset", "empty", "set"}

\* bool(v) of what os.getenv returned.
Truthy(v) == v = "set"

\* The slip: `or` for `and`.
IsRetrievalEnabledEither(key, store) == Truthy(key) \/ Truthy(store)

\* _is_retrieval_enabled()
IsRetrievalEnabled(key, store) == Truthy(key) /\ Truthy(store)

\* What the remote service does with one request:
\*   url_error        urlopen raises URLError (no route, timeout)
\*   http_error       urlopen raises HTTPError (401, 429, 500)
\*   status_not_200   a response is delivered whose status is not 200
\*   body_empty       status 200, empty body
\*   body_not_json    status 200, the body is not JSON
\*   body_not_object  status 200, the body is JSON but not an object
\*   output_not_list  an object whose "output" is missing or not a list
\*   item_not_object  "output" holds an item that is not an object
\*   text_*           "output" holds message items; the joined output text is
\*                    empty, a JSON list, another JSON value, prose around a
\*                    bracketed JSON list, prose around brackets that are not
\*                    JSON, or prose with no brackets
ListKinds == {"text_json_list", "text_bracketed_list"}

OtherKinds ==
    {"url_error", "http_error", "status_not_200", "body_empty", "body_not_json",
     "body_not_object", "output_not_list", "item_not_object", "text_empty",
     "text_json_other", "text_bracketed_bad", "text_prose"}

Raised == [kind |-> "raised", names |-> <<>>]

Returned(names) == [kind |-> "returned", names |-> names]

\* _openai_create_response(payload): raises without a key, else hands one
\* request to urlopen; raises on a transport error, on a status other than 200
\* and on a body json.loads rejects; an empty body gives {}.
\* [raised, sent: requests handed to urlopen, response]
openai_create_response(key, svc) ==
    IF ~Truthy(key) THEN [raised |-> TRUE, sent |-> 0, response |-> "none"]
    ELSE IF svc.kind \in {"url_error", "http_error", "status_not_200", "body_not_json"}
         THEN [raised |-> TRUE, sent |-> 1, response |-> "none"]
    ELSE [raised |-> FALSE, sent |-> 1, response |-> svc]

\* _extract_output_text(response): response.get raises on a body that is not an
\* object, item.get on an item that is not one; a missing or non-list "output"
\* gives "".  [raised, text]
extract_output_text(response) ==
    IF response.kind \in {"body_not_object", "item_not_object"}
    THEN [raised |-> TRUE, text |-> [form |-> "text_empty", items |-> <<>>]]
    ELSE IF response.kind \in {"body_empty", "output_not_list"}
    THEN [raised |-> FALSE, text |-> [form |-> "text_empty", items |-> <<>>]]
    ELSE [raised |-> FALSE, text |-> [form |-> response.kind, items |-> response.items]]

\* The slip: no fallback on text json.loads rejects.  [raised, items]
parse_json_array_strict(text) ==
    IF text.form = "text_json_list" THEN [raised |-> FALSE, items |-> text.items]
    ELSE IF text.form \in {"text_empty", "text_json_other"}
    THEN [raised |-> FALSE, items |-> <<>>]
    ELSE [raised |-> TRUE, items |-> <<>>]

\* _parse_json_array(text): [] for empty text; the parsed value if it is a
\* list; on JSONDecodeError the first-[ to last-] substring, parsed, else [].
\* [raised, items]
parse_json_array(text) ==
    IF text.form = "text_empty" THEN [raised |-> FALSE, items |-> <<>>]
    ELSE IF text.form = "text_json_list" THEN [raised |-> FALSE, items |-> text.items]
    ELSE IF text.form = "text_json_other" THEN [raised |-> FALSE, items |-> <<>>]
    ELSE IF text.form = "text_bracketed_list"
    THEN [raised |-> FALSE, items |-> text.items]
    ELSE [raised |-> FALSE, items |-> <<>>]

\* _retrieve_station_names(query, max_results): nothing is caught here, so what
\* the calls below raise reaches the caller.  [kind, names, sent]
retrieve_station_names(key, store, svc, maxr) ==
    IF ~IsRetrievalEnabled(key, store) THEN Returned(<<>>) @@ [sent |-> 0]
    ELSE LET resp == openai_create_response(key, svc)
         IN  IF resp.raised THEN Raised @@ [sent |-> resp.sent]
             ELSE LET out == extract_output_text(resp.response)
                  IN  IF out.raised THEN Raised @@ [sent |-> resp.sent]
                      ELSE LET parsed == parse_json_array(out.text)
                               stripped == [i \in 1..Len(parsed.items) |->
                                               Strip(parsed.items[i])]
                               names == SelectSeq(stripped, LAMBDA n : n # <<>>)
                           IN  IF parsed.raised THEN Raised @@ [sent |-> resp.sent]
                               ELSE Returned(Take(names, maxr)) @@ [sent |-> resp.sent]

\* The slip: the retrieved names compared as received.
InRetrievedRaw(entry, names) ==
    \E k \in 1..Len(names) : entry.nomestaz = names[k]

\* normalize_text(entry.get("nomestaz", "")) in normalized, where normalized is
\* {normalize_text(name) for name in retrieved_names}
InRetrieved(entry, names) ==
    \E k \in 1..Len(names) : EntryName(entry) = normalize_text(names[k])

Pair(ms, ss) == [matches |-> ms, suggestions |-> ss]

\* The slip: no try/except around the retrieval.
merge_uncaught(es, loc, retr) ==
    IF retr.kind = "raised" THEN [kind |-> "raised", pair |-> Pair(<<>>, <<>>)]
    ELSE [kind |-> "returned", pair |-> loc]

\* select_stations_by_query_with_retrieval from the try on: the except clause,
\* the empty-names return and the re-resolution against entries.  [kind, pair]
merge(es, loc, retr) ==
    IF retr.kind = "raised" THEN [kind |-> "returned", pair |-> loc]
    ELSE IF retr.names = <<>> THEN [kind |-> "returned", pair |-> loc]
    ELSE LET found == SelectSeq(es, LAMBDA e : InRetrieved(e, retr.names))
         IN  IF found # <<>> THEN [kind |-> "returned", pair |-> Pair(found, <<>>)]
             ELSE [kind |-> "returned", pair |-> loc]

\* ------------------------------------------------------------ time zones
\* A naive datetime is [day, hour, minute, second, microsecond]; day counts
\* from January 1 (day 0) of the year the model starts in, over years of 365
\* days, so July 1 is day 181 and day -1 is December 31 of the year before.
\* An instant is a number of minutes of UTC from 00:00 UTC of that January 1.
\*
\* A zone is [name, std, save, start, end]: its standard UTC offset in minutes
\* east, what daylight saving adds (0: the zone has none), and the yearly wall
\* clock minute, in standard time, at which daylight saving starts and ends.
DayMinutes == 24 * 60

YearMinutes == 365 * DayMinutes

At(day, hour) == day * DayMinutes + hour * 60

Zones ==
    { [name |-> "Europe/Rome", std |-> 60, save |-> 60,
       start |-> At(87, 2), end |-> At(297, 2)],
      [name |-> "UTC", std |-> 0, save |-> 0, start |-> 0, end |-> 0],
      [name |-> "Australia/Sydney", std |-> 600, save |-> 60,
       start |-> At(276, 2), end |-> At(94, 2)],
      [name |-> "America/New_York", std |-> 0 - 300, save |-> 60,
       start |-> At(66, 2), end |-> At(304, 1)],
      [name |-> "Asia/Kathmandu", std |-> 345, save |-> 0, start |-> 0, end |-> 0] }

\* Whether daylight saving is in effect at the instant u: localtime(u).tm_isdst.
IsDstInstant(z, u) ==
    LET pos == (u + z.std) % YearMinutes
    IN  /\ z.save > 0
        /\ IF z.start < z.end THEN z.start <= pos /\ pos < z.end
           ELSE pos >= z.start \/ pos < z.end

\* The wall clock, in minutes, that localtime shows at the instant u.
LocalOf(z, u) == u + z.std + (IF IsDstInstant(z, u) THEN z.save ELSE 0)

WallMinutes(dt) == dt.day * DayMinutes + dt.hour * 60 + dt.minute

\* datetime + timedelta(minutes=n)
AddMinutes(dt, n) ==
    LET m == WallMinutes(dt) + n
    IN  [day |-> m \div DayMinutes, hour |-> (m % DayMinutes) \div 60,
         minute |-> m % 60, second |-> dt.second, microsecond |-> dt.microsecond]

\* time.mktime(dt.timetuple()): the tuple has tm_isdst = -1, so the C library
\* decides which offset the wall clock is read with.  A wall clock that exists
\* once has one answer; one that exists twice (clocks set back) or never (set
\* forward) is read with the offset the library guesses, daylight or standard.
MkTime(z, dt, guess) ==
    LET t  == WallMinutes(dt)
        us == t - z.std
        ud == t - z.std - z.save
        okS == LocalOf(z, us) = t
        okD == LocalOf(z, ud) = t
    IN  IF okS /\ ~okD THEN us
        ELSE IF okD /\ ~okS THEN ud
        ELSE IF guess = "dst" THEN ud ELSE us

\* _is_dst_local(dt)
is_dst_local(z, dt, guess) == IsDstInstant(z, MkTime(z, dt, guess))

\* _timezone_offset_minutes(dt): time.altzone and time.timezone are seconds
\* west of UTC, time.daylight is set when the zone has a daylight saving rule.
timezone_offset_minutes(z, dt, guess) ==
    LET daylight == z.save > 0
        altzone  == 0 - (z.std + z.save) * 60
        timezone == 0 - z.std * 60
        offset   == IF is_dst_local(z, dt, guess) /\ daylight THEN altzone
                    ELSE timezone
    IN  offset \div 60

Midnight(day) ==
    [day |-> day, hour |-> 0, minute |-> 0, second |-> 0, microsecond |-> 0]

Max(a, b) == IF a >= b THEN a ELSE b

\* is_dst(dt)
is_dst(z, dt, guess) ==
    LET year == dt.day \div 365
        jan  == Midnight(365 * year)
        jul  == Midnight(365 * year + 181)
        max_offset == Max(timezone_offset_minutes(z, jan, guess),
                          timezone_offset_minutes(z, jul, guess))
    IN  timezone_offset_minutes(z, dt, guess) < max_offset

\* datetime.timestamp() of a naive datetime with fold = 0, in minutes: solve
\* t = local(u) for u by trying the offset in force around t; of two solutions
\* the earlier, and in a gap the later of the two candidates.
TimestampMinutes(z, dt) ==
    LET t  == WallMinutes(dt)
        a  == LocalOf(z, t) - t
        u1 == t - a
        t1 == LocalOf(z, u1)
        b1 == LocalOf(z, u1 - DayMinutes) - (u1 - DayMinutes)
        b  == IF t1 = t THEN b1 ELSE t1 - u1
        u2 == t - b
        t2 == LocalOf(z, u2)
    IN  IF t1 = t /\ a = b1 THEN u1
        ELSE IF t2 = t THEN u2
        ELSE IF t1 = t THEN u1
        ELSE Max(u1, u2)

\* An epoch value in milliseconds is held as [days, ms], days * 86400000 + ms
\* with 0 <= ms < 86400000, counted from 00:00 UTC of January 1: the product
\* is beyond the model checker's integers, and that midnight is itself a whole
\* number of days after the epoch.
\* int(dt.timestamp() * 1000)
TimestampMs(z, dt) ==
    LET u == TimestampMinutes(z, dt)
    IN  [days |-> u \div DayMinutes,
         ms   |-> (u % DayMinutes) * 60000 + dt.second * 1000
                    + dt.microsecond \div 1000]

\* The slip: the boundary minute compared with 30.
RoundedMinuteBefore30(minute) == IF minute < 30 THEN 0 ELSE 30

\* minutes = 0 if now.minute < 31 else 30
RoundedMinute(minute) == IF minute < 31 THEN 0 ELSE 30

\* now.replace(minute=minutes, second=0, microsecond=0)
Rounded(dt) ==
    [dt EXCEPT !.minute = RoundedMinute(dt.minute), !.second = 0,
               !.microsecond = 0]

\* get_timestamp_ms() from `rounded` on.
ShiftAndStamp(z, r, isdst) ==
    LET back == IF isdst THEN AddMinutes(r, 0 - 60) ELSE r
    IN  TimestampMs(z, AddMinutes(back, 30))

\* ------------------------------------------------------------------ inputs
RECURSIVE SeqsUpTo(_, _)
SeqsUpTo(S, n) ==
    IF n = 0 THEN {<<>>}
    ELSE LET shorter == SeqsUpTo(S, n - 1)
         IN  shorter \cup {Append(s, x) : s \in shorter, x \in S}

TextAlphabet == {"a", "A", "1", " ", "-", "E_grave", "grave", "_"}

\* "Rio a", "rio", "ario", "O` a" (O with a combining grave), "a-o"
BroadNames ==
    { <<"R","i","o"," ","a">>, <<"r","i","o">>, <<"a","r","i","o">>,
      <<"O","grave"," ","a">>, <<"a","-","o">> }

QueryAlphabet == {"r", "i", "o", " ", "a"}

\* "fiume rio", "Rio-a o", "rio_a", "torrente a", "o` i" (precomposed o grave),
\* "Fosso  A" with a tab and a space
BroadQueries ==
    SeqsUpTo(QueryAlphabet, MaxQueryLen) \cup
    { None,
      <<"f","i","u","m","e"," ","r","i","o">>,
      <<"R","i","o","-","a"," ","o">>,
      <<"r","i","o","_","a">>,
      <<"t","o","r","r","e","n","t","e"," ","a">>,
      <<"o_grave"," ","i">>,
      <<"F","o","s","s","o","TAB"," ","A">>,
      <<"c","a","n","a","l","e">> }

\* "ab", "c", "bc", "x": against the tokens a, b, c they score 2, 1, 2, 0.
RankNames == { <<"a","b">>, <<"c">>, <<"b","c">>, <<"x">> }

\* "a b c", "Rio a, b c"
RankQueries == { <<"a"," ","b"," ","c">>,
                 <<"R","i","o"," ","a",","," ","b"," ","c">> }

EntriesOf(names, n) ==
    { [i \in 1..Len(ns) |-> [nomestaz |-> ns[i]]] : ns \in SeqsUpTo(names, n) }

\* "Rio a", "a-o", "ario"
ResolveNames == { <<"R","i","o"," ","a">>, <<"a","-","o">>, <<"a","r","i","o">> }

\* "a" (matches), "zz" (nothing), "rio" (all generic), "ario zz" (suggestions)
ResolveQueries ==
    { <<"a">>, <<"z","z">>, <<"r","i","o">>, <<"a","r","i","o"," ","z","z">> }

\* " RIO  A " (names the station "Rio a"), "zz" (no station), "  " (blank)
RetrievedItems == { <<" ","R","I","O"," "," ","A"," ">>, <<"z","z">>, <<" "," ">> }

Services ==
    {[kind |-> k, items |-> <<>>] : k \in OtherKinds} \cup
    {[kind |-> k, items |-> it] : k \in ListKinds,
                                  it \in SeqsUpTo(RetrievedItems, MaxItems)}

NotCalled == [kind |-> "none", names |-> <<>>]

NoResult == [kind |-> "none", pair |-> Pair(<<>>, <<>>)]

ResolveIdle ==
    /\ max_results = 5
    /\ api_key = "unset"
    /\ vector_store = "unset"
    /\ service = [kind |-> "url_error", items |-> <<>>]
    /\ requests = 0
    /\ local = Pair(<<>>, <<>>)
    /\ retrieved = NotCalled
    /\ result = NoResult

\* Days of the year: the first and last, the days clocks change in some zone,
\* an ordinary winter and summer day.
NowDays == {0, 20, 66, 87, 94, 181, 276, 297, 304, 364}

NowMinutes == {0, 1, 15, 29, 30, 31, 45, 59}

Nows ==
    [day : NowDays, hour : 0..23, minute : NowMinutes, second : {0, 59},
     microsecond : {0, 999999}]

\* A wall clock the host can show: some instant has it.
Exists(z, dt) ==
    \/ LocalOf(z, WallMinutes(dt) - z.std) = WallMinutes(dt)
    \/ LocalOf(z, WallMinutes(dt) - z.std - z.save) = WallMinutes(dt)

NoTime == [day |-> 0, hour |-> 0, minute |-> 0, second |-> 0, microsecond |-> 0]

TimeIdle ==
    /\ zone = [name |-> "UTC", std |-> 0, save |-> 0, start |-> 0, end |-> 0]
    /\ now = NoTime
    /\ rounded = NoTime
    /\ dst = FALSE
    /\ timestamp = [days |-> 0, ms |-> 0]

MatchIdle ==
    /\ entries = <<>>
    /\ query = None
    /\ matches = <<>>
    /\ suggestions = <<>>

NormIdle ==
    /\ value = None
    /\ normalized = None
    /\ renormalized = None

\* ---------------------------------------------------------- normalisation
InitNorm ==
    /\ pc = "start"
    /\ value \in SeqsUpTo(TextAlphabet, MaxTextLen) \cup {None}
    /\ normalized = None
    /\ renormalized = None
    /\ MatchIdle
    /\ ResolveIdle
    /\ TimeIdle

\* normalize_text applied to the input, and again to its own output.
Normalize ==
    /\ pc = "start"
    /\ normalized' = normalize_text(value)
    /\ renormalized' = normalize_text(normalize_text(value))
    /\ pc' = "done"
    /\ UNCHANGED <<value, matchVars, resolveVars, timeVars>>

NextNorm == Normalize

SpecNorm == InitNorm /\ [][NextNorm]_vars

\* ---------------------------------------------------------------- matching
InitMatch ==
    /\ pc = "start"
    /\ NormIdle
    /\ \/ /\ entries \in EntriesOf(BroadNames \cup {None}, MaxShortEntries)
          /\ query \in BroadQueries
       \/ /\ entries \in EntriesOf(RankNames, MaxEntries)
          /\ query \in RankQueries
    /\ matches = <<>>
    /\ suggestions = <<>>
    /\ ResolveIdle
    /\ TimeIdle

\* One call of select_stations_by_query(entries, query).
SelectStationsByQuery ==
    /\ pc = "start"
    /\ LET r == select_stations_by_query(entries, query)
       IN  /\ matches' = r.matches
           /\ suggestions' = r.suggestions
    /\ pc' = "done"
    /\ UNCHANGED <<entries, query, normVars, resolveVars, timeVars>>

NextMatch == SelectStationsByQuery

SpecMatch == InitMatch /\ [][NextMatch]_vars

\* -------------------------------------------------------------- resolution
InitResolve ==
    /\ pc = "start"
    /\ NormIdle
    /\ entries \in EntriesOf(ResolveNames, MaxShortEntries)
    /\ query \in ResolveQueries
    /\ matches = <<>>
    /\ suggestions = <<>>
    /\ max_results \in {1, 5}
    /\ api_key \in EnvValues
    /\ vector_store \in EnvValues
    /\ service \in Services
    /\ requests = 0
    /\ local = Pair(<<>>, <<>>)
    /\ retrieved = NotCalled
    /\ result = NoResult
    /\ TimeIdle

\* select_stations_by_query_with_retrieval up to its first return: local
\* matching, then the gate.
ResolveLocal ==
    /\ pc = "start"
    /\ LET loc == select_stations_by_query(entries, query)
       IN  /\ local' = loc
           /\ IF loc.matches # <<>> \/ ~IsRetrievalEnabled(api_key, vector_store)
              THEN /\ result' = [kind |-> "returned", pair |-> loc]
                   /\ pc' = "done"
              ELSE /\ result' = result
                   /\ pc' = "retrieving"
    /\ UNCHANGED <<timeVars, entries, query, matches, suggestions, normVars, max_results,
                   api_key, vector_store, service, requests, retrieved>>

\* The call _retrieve_station_names(query, max_results) inside the try.
RetrieveStationNames ==
    /\ pc = "retrieving"
    /\ LET r == retrieve_station_names(api_key, vector_store, service, max_results)
       IN  /\ retrieved' = [kind |-> r.kind, names |-> r.names]
           /\ requests' = requests + r.sent
    /\ pc' = "merging"
    /\ UNCHANGED <<timeVars, entries, query, matches, suggestions, normVars, max_results,
                   api_key, vector_store, service, local, result>>

\* The rest of select_stations_by_query_with_retrieval.
ResolveMerge ==
    /\ pc = "merging"
    /\ result' = merge(entries, local, retrieved)
    /\ pc' = "done"
    /\ UNCHANGED <<timeVars, entries, query, matches, suggestions, normVars, max_results,
                   api_key, vector_store, service, requests, local, retrieved>>

NextResolve == ResolveLocal \/ RetrieveStationNames \/ ResolveMerge

SpecResolve == InitResolve /\ [][NextResolve]_vars

\* --------------------------------------------------------------- timestamp
InitTime ==
    /\ pc = "start"
    /\ NormIdle
    /\ MatchIdle
    /\ ResolveIdle
    /\ zone \in Zones
    /\ now \in Nows
    /\ Exists(zone, now)
    /\ rounded = NoTime
    /\ dst = FALSE
    /\ timestamp = [days |-> 0, ms |-> 0]

\* One call of get_timestamp_ms().
GetTimestampMs ==
    /\ pc = "start"
    /\ \E guess \in {"std", "dst"} :
          LET r == Rounded(now)
              d == is_dst(zone, r, guess)
          IN  /\ rounded' = r
              /\ dst' = d
              /\ timestamp' = ShiftAndStamp(zone, r, d)
    /\ pc' = "done"
    /\ UNCHANGED <<zone, now, normVars, matchVars, resolveVars>>

NextTime == GetTimestampMs

SpecTime == InitTime /\ [][NextTime]_vars

\* ------------------------------------------------------------------ claims
Range(s) == {s[i] : i \in 1..Len(s)}

\* The tokens toks are all substrings of the entry's normalized name.
EveryTokenInName(toks, entry) ==
    LET name == normalize_text(entry.nomestaz)
    IN  \A k \in 1..Len(toks) : IsSubstring(toks[k], name)

\* The number of the tokens toks that are substrings of the normalized name.
Overlap(toks, entry) ==
    LET name == normalize_text(entry.nomestaz)
    IN  Cardinality({k \in 1..Len(toks) : IsSubstring(toks[k], name)})

\* C1 as stated: for every entries and every query, an entry is in `matches`
\* if and only if every token of the query is a substring of its normalized
\* name.
C1_AsStated ==
    pc = "done" =>
        LET toks == Tokens(query)
        IN  \A i \in 1..Len(entries) :
                (entries[i] \in Range(matches)) <=> EveryTokenInName(toks, entries[i])

\* C1 amended: when the query leaves at least one token, an entry is in
\* `matches` if and only if every token is a substring of its normalized name;
\* when it leaves none, `matches` is empty.
C1_MatchesIffAllTokens ==
    pc = "done" =>
        LET toks == Tokens(query)
        IN  IF toks # <<>>
            THEN \A i \in 1..Len(entries) :
                    (entries[i] \in Range(matches))
                        <=> EveryTokenInName(toks, entries[i])
            ELSE matches = <<>>

\* "Rio-a o" against a list where some entry holds both tokens and some does not.
C1_Witness ==
    /\ pc = "done"
    /\ query = <<"R","i","o","-","a"," ","o">>
    /\ Tokens(query) = << <<"a">>, <<"o">> >>
    /\ matches # <<>>
    /\ Len(matches) < Len(entries)

\* C2: with no exact match, the suggestions are the first 5 of the entries of
\* overlap at least 1 ordered by descending overlap, equal overlaps in input
\* order: the entry at input index i stands behind every entry of greater
\* overlap and every earlier entry of equal overlap.
C2_SuggestionsRanked ==
    (pc = "done" /\ matches = <<>>) =>
        LET toks == Tokens(query)
            ov  == [i \in 1..Len(entries) |-> Overlap(toks, entries[i])]
            idx == {i \in 1..Len(entries) : ov[i] >= 1}
            pos == [i \in idx |->
                      1 + Cardinality({j \in idx : ov[j] > ov[i]})
                        + Cardinality({j \in idx : j < i /\ ov[j] = ov[i]})]
            sov == [k \in 1..Len(suggestions) |-> Overlap(toks, suggestions[k])]
        IN  /\ Len(suggestions) <= 5
            /\ Len(suggestions) = (IF Cardinality(idx) < 5 THEN Cardinality(idx) ELSE 5)
            /\ \A i \in idx : pos[i] <= 5 => suggestions[pos[i]] = entries[i]
            /\ \A k \in 1..Len(suggestions) : sov[k] >= 1
            /\ \A k \in 1..(Len(suggestions) - 1) : sov[k] >= sov[k + 1]

\* Six scored entries c, ab, c, bc, c, ab (overlaps 1, 2, 1, 2, 1, 2) for the
\* tokens a, b, c: the sort reorders them and the sixth is cut.
C2_Witness ==
    /\ pc = "done"
    /\ matches = <<>>
    /\ [i \in 1..Len(entries) |-> entries[i].nomestaz]
         = << <<"c">>, <<"a","b">>, <<"c">>, <<"b","c">>, <<"c">>, <<"a","b">> >>
    /\ [i \in 1..Len(suggestions) |-> suggestions[i].nomestaz]
         = << <<"a","b">>, <<"b","c">>, <<"a","b">>, <<"c">>, <<"c">> >>

\* The ways the retrieval step fails: transport, authentication or another
\* status than 200, a malformed body or output, a text that is no JSON list.
RaisingKinds ==
    {"url_error", "http_error", "status_not_200", "body_not_json",
     "body_not_object", "item_not_object"}

EmptyKinds ==
    {"body_empty", "output_not_list", "text_empty", "text_json_other",
     "text_bracketed_bad", "text_prose"}

FailureKinds == RaisingKinds \cup EmptyKinds

\* C3: a request is handed to the service only after local matching found no
\* match, and only with OPENAI_API_KEY and OPENAI_VECTOR_STORE_ID both set.
C3_RequestOnlyWhenNeeded ==
    requests > 0 =>
        /\ select_stations_by_query(entries, query).matches = <<>>
        /\ local.matches = <<>>
        /\ api_key = "set"
        /\ vector_store = "set"

C3_Witness ==
    /\ pc = "done"
    /\ requests = 1
    /\ local.matches = <<>>

\* C4: when the retrieval step fails, the call returns, and returns the pair
\* local matching produced.
C4_FailureGivesLocal ==
    (pc = "done" /\ retrieved.kind # "none" /\ service.kind \in FailureKinds) =>
        /\ result.kind = "returned"
        /\ result.pair = local
        /\ result.pair = select_stations_by_query(entries, query)

\* An HTTP error (authentication) while local matching had suggestions.
C4_Witness ==
    /\ pc = "done"
    /\ service.kind = "http_error"
    /\ requests = 1
    /\ retrieved.kind = "raised"
    /\ local.suggestions # <<>>
    /\ result.pair = local

\* C5 as stated: _retrieve_station_names never raises; whenever the retrieval
\* fails it returns an empty sequence.
C5_AsStated ==
    (retrieved.kind # "none" /\ service.kind \in FailureKinds) =>
        retrieved = Returned(<<>>)

\* C5 amended: _retrieve_station_names returns an empty sequence when the
\* response carries no output text or a text that is not a JSON list; a
\* transport error, an HTTP error or other status than 200, a body that is not
\* JSON and a body or output item that is not an object raise out of it to its
\* caller, which absorbs them.
C5_RaisesOrEmpty ==
    retrieved.kind # "none" =>
        /\ service.kind \in EmptyKinds => retrieved = Returned(<<>>)
        /\ service.kind \in RaisingKinds => retrieved = Raised
        /\ (pc = "done" /\ service.kind \in RaisingKinds) => result.kind = "returned"

\* Prose with brackets that are not JSON: both parses fail, nothing is raised.
C5_Witness ==
    /\ pc = "done"
    /\ service.kind = "text_bracketed_bad"
    /\ requests = 1
    /\ retrieved = Returned(<<>>)

\* C6: when retrieval returned names, the result is the entries, in input
\* order, whose normalized name is the normalized form of a retrieved name,
\* with no suggestions, if there is such an entry, and the local pair
\* otherwise; a non-empty local `matches` is returned as it is, and every
\* returned entry is an entry of the input.
C6_RetrievedReplaceEmpty ==
    pc = "done" =>
        /\ (retrieved.kind = "returned" /\ retrieved.names # <<>>) =>
              LET wanted == {normalize_text(retrieved.names[k]) :
                                k \in 1..Len(retrieved.names)}
                  sel == SelectSeq(entries,
                            LAMBDA e : normalize_text(e.nomestaz) \in wanted)
              IN  IF sel # <<>> THEN result.pair = Pair(sel, <<>>)
                  ELSE result.pair = local
        /\ local.matches # <<>> => (result.pair = local /\ requests = 0)
        /\ Range(result.pair.matches) \subseteq Range(entries)
        /\ Range(result.pair.suggestions) \subseteq Range(entries)

\* Local matching had only suggestions; a retrieved name, in another case and
\* spacing, names a station, which replaces them.
C6_Witness ==
    /\ pc = "done"
    /\ local.matches = <<>>
    /\ local.suggestions # <<>>
    /\ <<"z","z">> \in Range(retrieved.names)
    /\ result.pair.matches = << [nomestaz |-> <<"R","i","o"," ","a">>] >>
    /\ result.pair.suggestions = <<>>

C8_AsStated ==
    pc = "done" => timestamp.ms % (30 * 60 * 1000) = 0

\* What the code keeps of C8: the value is a whole multiple of 30 minutes on a
\* host whose UTC offsets are whole multiples of 30 minutes; on every host it
\* is one once the zone's standard offset is added, that is, the wall clock of
\* the returned instant stands on minute 0 or 30.
C8_AlignedUpToZoneOffset ==
    pc = "done" =>
        /\ (zone.std % 30 = 0 /\ zone.save % 30 = 0)
              => timestamp.ms % (30 * 60 * 1000) = 0
        /\ (timestamp.ms + zone.std * 60000) % (30 * 60 * 1000) = 0

\* C9: the returned instant is read off the wall clock `now` rounded down to
\* minute 0 (minute < 31) or 30, seconds and below zeroed, less one hour
\* exactly when the rounded time's offset (minutes west, as time.timezone
\* counts) is below the greater of the offsets on January 1 and July 1 of its
\* year, plus 30 minutes; 10:15 under daylight saving gives 09:30.
C9_RoundShiftStamp ==
    pc = "done" =>
        LET west(d, g) == 0 - (LocalOf(zone, MkTime(zone, d, g)) - MkTime(zone, d, g))
            year == rounded.day \div 365
            jan  == Midnight(365 * year)
            jul  == Midnight(365 * year + 181)
            wall == WallMinutes(rounded) - (IF dst THEN 60 ELSE 0) + 30
            u    == timestamp.days * DayMinutes + timestamp.ms \div 60000
        IN  /\ rounded = [day |-> now.day, hour |-> now.hour,
                          minute |-> IF now.minute < 31 THEN 0 ELSE 30,
                          second |-> 0, microsecond |-> 0]
            /\ \E g \in {"std", "dst"} :
                  dst <=> west(rounded, g) < Max(west(jan, g), west(jul, g))
            /\ dst => zone.save > 0
            /\ timestamp.ms % 60000 = 0
            /\ 0 <= timestamp.ms /\ timestamp.ms < 24 * 60 * 60 * 1000
            /\ u \in {wall - zone.std, wall - zone.std - zone.save}
            /\ (LocalOf(zone, wall - zone.std) = wall
                  \/ LocalOf(zone, wall - zone.std - zone.save) = wall)
                 => LocalOf(zone, u) = wall
            /\ (zone.name = "Europe/Rome" /\ now.day = 181 /\ now.hour = 10
                  /\ now.minute = 15)
                 => (dst /\ LocalOf(zone, u) = At(181, 9) + 30)

\* July 1, 10:15:59.999999 in Rome: 09:30 CEST, which is 07:30 UTC.
C9_Witness ==
    /\ pc = "done"
    /\ zone.name = "Europe/Rome"
    /\ now = [day |-> 181, hour |-> 10, minute |-> 15, second |-> 59,
              microsecond |-> 999999]
    /\ dst
    /\ timestamp = [days |-> 181, ms |-> (7 * 60 + 30) * 60000]

\* Only a-z, 0-9 and single interior spaces.
WellFormed(s) ==
    /\ \A i \in 1..Len(s) : s[i] \in LowerAlnum \cup {" "}
    /\ s # <<>> => (s[1] # " " /\ s[Len(s)] # " ")
    /\ \A i \in 1..(Len(s) - 1) : ~(s[i] = " " /\ s[i + 1] = " ")

\* C10: normalize_text of its own output is that output, the output holds only
\* a-z, 0-9 and single interior spaces, a missing input gives the empty
\* string, and U+00C8 gives "e".
C10_NormalizeIdempotent ==
    pc = "done" =>
        /\ renormalized = normalized
        /\ WellFormed(normalized)
        /\ value \in {None, <<>>} => normalized = <<>>
        /\ value = <<"E_grave">> => normalized = <<"e">>

\* E-grave, two hyphens, a: "e a".
C10_Witness ==
    /\ pc = "done"
    /\ value = <<"E_grave", "-", "-", "a">>
    /\ normalized = <<"e", " ", "a">>
    /\ renormalized = <<"e", " ", "a">>

====
